---- MODULE Spec2Model ----
(***************************************************************************)
(* A model of CppParserGeneratorTrait                                      *)
(* (src/src/plugins/cpp/cpp-parser-generator-trait.js): the C++ backend of *)
(* the parser generator.                                                   *)
(*                                                                         *)
(* Text is modelled as a sequence of pieces.  Where the code inspects      *)
(* single characters (entry[0], the quote stripping of _scopeVars) the     *)
(* pieces are the characters themselves.                                   *)
(***************************************************************************)
EXTENDS Integers, Sequences, FiniteSets, TLC

VARIABLES
  slots,      \* the named-slot registry that writeData fills: slot name -> value
  table,      \* the table object returned by one generateParseTableData() call
  tableIn,    \* history: the content of `table` when the last _buildTable call started
  tableRet,   \* history: the text returned by the last _buildTable call
  tableRet1,  \* history: the text returned by the first _buildTable call
  tcalls,     \* history: number of _buildTable calls on `table`
  productions,         \* this._grammar.getProductions()
  tokens,              \* this._tokens, in Object.keys order: <<[key, code], ...>>
  declared,            \* the keys of this._grammar._tokensMap
  lexRules,            \* this._grammar.getLexGrammar().getRules()
  productionHandlers,  \* this._productionHandlers
  lexHandlers,         \* this._lexHandlers
  terminalsMap,        \* this._terminalsMap
  actionCalls,  \* history: the productions with an action that buildSemanticAction
                \* was called on, with their position in generateProductionsData
  lastCall,     \* history: the last buildSemanticAction call and what it returned
  genBase,      \* history: length of _productionHandlers when the last
                \* generateProductions call started (-1: no such call yet)
  lexRefs,      \* history: the N of each &_lexRule<N> of the last generateLexRules call
  lexBase,      \* history: length of _lexHandlers when that call started
  moduleInclude,  \* this._grammar.getModuleInclude()
  includeCall,    \* history: how the last generateModuleInclude call ended
  slotsBefore,    \* history: the registry when that call started
  run,          \* history: how the current generation run started
  twin          \* history: a fresh instance on which the current run is replayed

tableVars == <<table, tableIn, tableRet, tableRet1, tcalls>>

grammarVars == <<productions, tokens, declared, lexRules>>

structVars == <<productionHandlers, lexHandlers, terminalsMap>>

prodHistVars == <<actionCalls, lastCall, genBase>>

lexHistVars == <<lexRefs, lexBase>>

includeVars == <<moduleInclude, includeCall, slotsBefore>>

vars ==
  <<slots, tableVars, grammarVars, structVars, prodHistVars, lexHistVars, includeVars,
    run, twin>>

(***************************************************************************)
(* Bounds of the model.                                                    *)
(***************************************************************************)
MaxRows == 2
MaxCalls == 2
MaxRHS == 2
MaxProds == 2
MaxHandlers == 3
MaxLexRules == 2
MaxLexHandlers == 4
MaxRuns == 2
MaxFragments == 2

(***************************************************************************)
(* The slot registry.                                                      *)
(***************************************************************************)
NoSlots == [s \in {} |-> <<>>]

writeData(reg, name, value) ==
  [s \in (DOMAIN reg) \cup {name} |-> IF s = name THEN value ELSE reg[s]]

(***************************************************************************)
(* Small helpers on sequences.                                             *)
(***************************************************************************)
Range(s) == {s[i] : i \in DOMAIN s}

SeqsUpTo(S, n) == UNION {[1..k -> S] : k \in 0..n}

(***************************************************************************)
(* _buildTable.  A raw directive is a string, modelled character by        *)
(* character: "s7" is <<"s","7">>.                                         *)
(***************************************************************************)
ShiftOpen   == <<"{","T","E",":",":","S","h","i","f","t",","," ">>
ReduceOpen  == <<"{","T","E",":",":","R","e","d","u","c","e",","," ">>
TransitOpen == <<"{","T","E",":",":","T","r","a","n","s","i","t",","," ">>
AcceptText  == <<"{","T","E",":",":","A","c","c","e","p","t",","," ","0","}">>
Close       == <<"}">>
Acc         == <<"a","c","c">>

\* entry.slice(1)
Slice1(entry) == IF Len(entry) = 0 THEN <<>> ELSE Tail(entry)

\* entry[0] === c
FirstIs(entry, c) == Len(entry) > 0 /\ entry[1] = c

\* EncodeEntry without the slice(1): the directive is copied whole.
EncodeEntryNoSlice(entry) ==
  IF FirstIs(entry, "s") THEN ShiftOpen \o entry \o Close
  ELSE IF FirstIs(entry, "r") THEN ReduceOpen \o entry \o Close
  ELSE IF entry = Acc THEN AcceptText
  ELSE TransitOpen \o entry \o Close

\* The body of the forEach callback: the text stored back into row[key].
EncodeEntry(entry) ==
  IF FirstIs(entry, "s") THEN ShiftOpen \o Slice1(entry) \o Close
  ELSE IF FirstIs(entry, "r") THEN ReduceOpen \o Slice1(entry) \o Close
  ELSE IF entry = Acc THEN AcceptText
  ELSE TransitOpen \o entry \o Close

\* Object.keys(row).forEach(key => row[key] = ...): the row after the loop.
EncodeRow(row) == [k \in DOMAIN row |-> EncodeEntry(row[k])]

\* Number(key) for a key of decimal digits.
DigitVal(c) ==
  CASE c = "0" -> 0 [] c = "1" -> 1 [] c = "2" -> 2 [] c = "3" -> 3
    [] c = "4" -> 4 [] c = "5" -> 5 [] c = "6" -> 6 [] c = "7" -> 7
    [] c = "8" -> 8 [] c = "9" -> 9

RECURSIVE Number(_)
Number(key) ==
  IF Len(key) = 0 THEN 0
  ELSE 10 * Number(SubSeq(key, 1, Len(key) - 1)) + DigitVal(key[Len(key)])

_mapKey(key, keyType) ==
  CASE keyType = "number" -> Number(key)
    [] keyType = "raw" -> key

\* A value of type 'string' is in this model always an array (the rule
\* indices of a start condition), which takes the Array.isArray branch: the
\* list of its elements.
_mapValue(value, valueType) ==
  CASE valueType = "raw" -> value
    [] valueType = "string" -> value

\* The order in which `for (k in object)` visits the integer-like keys of a
\* row: ascending numeric order.
RECURSIVE KeyOrder(_)
KeyOrder(keys) ==
  IF keys = {} THEN <<>>
  ELSE LET k == CHOOSE x \in keys : \A y \in keys : Number(x) <= Number(y)
       IN <<k>> \o KeyOrder(keys \ {k})

\* _toCppMap(object, typeName, keyType, valueType) for an object whose keys
\* are visited in the order `order`: `typeName {{k, v}, ...}`.
_toCppMap(object, order, typeName, keyType, valueType) ==
  [type  |-> typeName,
   items |-> [i \in DOMAIN order |->
                <<_mapKey(order[i], keyType), _mapValue(object[order[i]], valueType)>>]]

\* The table after _buildTable: every row rewritten in place.
TableAfter(t) == [i \in DOMAIN t |-> EncodeRow(t[i])]

\* The entries of _buildTable, in Object.keys(table) order (state order).
TableEntries(t) ==
  [i \in DOMAIN t |->
     _toCppMap(TableAfter(t)[i], KeyOrder(DOMAIN t[i]), "Row", "number", "raw")]

(***************************************************************************)
(* The tables the table generator can hand over: rows of states 0..n-1,    *)
(* each a sparse map from column key to raw directive.                     *)
(***************************************************************************)
ColKeys == {<<"2">>, <<"1","0">>}

Directives == {<<"s","7">>, <<"r","3">>, Acc, <<"1","2">>}

Rows == UNION {[K -> Directives] : K \in SUBSET ColKeys}

Tables == SeqsUpTo(Rows, MaxRows)

(***************************************************************************)
(* Handler text.  A handler is a sequence of lexemes, a lexeme a sequence  *)
(* of pieces; a quote character is always a piece of its own, so that      *)
(* `'a'` is <<"'", "a", "'">> and `"'a'"` is <<"\"", "'", "a", "'", "\"">>.*)
(* White space between lexemes is not represented.                         *)
(***************************************************************************)
W(s) == <<s>>

Semi == W(";")
Return == W("return")

Null == <<>>

\* /;\s*$/.test(handler)
EndsWithSemicolon(handler) == Len(handler) > 0 /\ handler[Len(handler)] = Semi

\* token.replace(/^['"]|['"]$/g, ''): one leading and one trailing quote.
IsQuote(c) == c \in {"'", "\""}

StripQuotes(token) ==
  LET a == IF Len(token) > 0 /\ IsQuote(token[1]) THEN Tail(token) ELSE token
  IN IF Len(a) > 0 /\ IsQuote(a[Len(a)]) THEN SubSeq(a, 1, Len(a) - 1) ELSE a

\* The replacement callback of _scopeVars: the lexeme that follows `return`.
ScopeReturn(token, tmap) ==
  LET t == StripQuotes(token)
  IN IF t \in {W("%empty"), W("nullptr"), W("NULL")}
       THEN <<"TokenType::", "__EMPTY">>
     ELSE IF t \in DOMAIN tmap
       THEN <<"TokenType::", "TOKEN_TYPE_", ToString(tmap[t])>>
     ELSE <<"TokenType::">> \o t

\* The first two replacements of _scopeVars, lexeme by lexeme.
ScopeWord(lexeme) ==
  IF lexeme = W("yytext") THEN W("tokenizer.yytext")
  ELSE IF lexeme = W("__") THEN W("auto __")
  ELSE lexeme

\* The pieces of the lexemes code[i..j] put together.
RECURSIVE Join(_, _, _)
Join(code, i, j) == IF i > j THEN <<>> ELSE code[i] \o Join(code, i + 1, j)

\* The position of the first `;` at or after i, or 0.
FirstSemi(code, i) ==
  IF \E j \in i..Len(code) : code[j] = Semi
    THEN CHOOSE j \in i..Len(code) :
           code[j] = Semi /\ \A k \in i..(j - 1) : code[k] # Semi
    ELSE 0

\* code.replace(/return\s+([^;]+?);/g, ...), scanning from lexeme i.
RECURSIVE ReplaceReturns(_, _, _)
ReplaceReturns(code, i, tmap) ==
  IF i > Len(code) THEN <<>>
  ELSE LET j == FirstSemi(code, i + 1)
       IN IF code[i] = Return /\ j > i + 1
            THEN <<Return, ScopeReturn(Join(code, i + 1, j - 1), tmap), Semi>>
                   \o ReplaceReturns(code, j + 1, tmap)
            ELSE <<code[i]>> \o ReplaceReturns(code, i + 1, tmap)

_scopeVars(code, tmap) ==
  ReplaceReturns([i \in DOMAIN code |-> ScopeWord(code[i])], 1, tmap)

_actionFromHandler(handler, tmap) ==
  LET h == IF EndsWithSemicolon(handler) THEN handler ELSE handler \o <<Semi>>
      action == _scopeVars(h, tmap)
  IN IF action = <<>> THEN <<Return, W("nullptr"), Semi>> ELSE action

(***************************************************************************)
(* Productions.  A production has its right-hand symbols (each a token or  *)
(* a nonterminal; the epsilon production has the single symbol epsilon),   *)
(* its propagates-token flag and its raw action text (Null when absent).   *)
(***************************************************************************)
Epsilon == <<"eps">>

isEpsilon(production) == production.rhs = Epsilon

isTokenSymbol(symbol) == symbol = "T"

derivesPropagatingToken(production) == production.propagates

getSemanticActionCode(production) == production.action

\* `_${index + 1}`
ParamName(i) == <<"_", ToString(i)>>

\* action.includes(name)
Includes(action, name) ==
  \E k \in DOMAIN action : \E q \in 1..(Len(action[k]) - Len(name) + 1) :
    SubSeq(action[k], q, q + Len(name) - 1) = name

\* _getParamsInfo: the entries of `info` in insertion order.
_getParamsInfo(production, action) ==
  IF isEpsilon(production) THEN <<>>
  ELSE [i \in DOMAIN production.rhs |->
          [name    |-> ParamName(i),
           isUsed  |-> Includes(action, ParamName(i)),
           isToken |-> isTokenSymbol(production.rhs[i])]]

Reverse(s) == [i \in DOMAIN s |-> s[Len(s) + 1 - i]]

PopStatement(production, info) ==
  IF info.isToken \/ derivesPropagatingToken(production)
    THEN IF info.isUsed THEN <<"auto ">> \o info.name \o <<" = POP_T();">>
         ELSE <<"parser.tokensStack.pop_back();">>
    ELSE IF info.isUsed THEN <<"auto ">> \o info.name \o <<" = POP_V();">>
         ELSE <<"parser.valuesStack.pop_back();">>

\* ArgsOrder without the reverse().
ArgsOrderForward(argsInfo) == argsInfo

\* Object.keys(argsInfo).reverse()
ArgsOrder(argsInfo) == Reverse(argsInfo)

_generateHandlerPrologue(production, action, argsInfo) ==
  LET order == ArgsOrder(argsInfo)
      argsPrologue == [i \in DOMAIN order |-> PopStatement(production, order[i])]
  IN <<W("// Semantic action prologue.")>> \o argsPrologue \o action

_generateHandlerEpilogue(production, action) ==
  LET pushResult == IF derivesPropagatingToken(production) THEN "PUSH_TR" ELSE "PUSH_VR"
  IN action \o <<W("// Semantic action epilogue."), <<pushResult, "();">>>>

\* The record that buildSemanticAction pushes for a production with an action.
HandlerRecord(production, tmap) ==
  LET action == _actionFromHandler(getSemanticActionCode(production), tmap)
      argsInfo == _getParamsInfo(production, action)
  IN [args   |-> <<"yyparse& parser">>,
      action |-> _generateHandlerEpilogue(production,
                   _generateHandlerPrologue(production, action, argsInfo))]

\* `"_handler${n}"`
HandlerName(n) == <<"\"", "_handler", ToString(n), "\"">>

\* buildSemanticAction with the name taken from the length before the push.
buildSemanticActionNameBeforePush(production, hs, tmap) ==
  IF getSemanticActionCode(production) = Null
    THEN [handlers |-> hs, ret |-> Null]
    ELSE [handlers |-> Append(hs, HandlerRecord(production, tmap)),
          ret |-> HandlerName(Len(hs))]

\* buildSemanticAction(production) on the handler list hs: the list after
\* the call and the value returned.
buildSemanticAction(production, hs, tmap) ==
  IF getSemanticActionCode(production) = Null
    THEN [handlers |-> hs, ret |-> Null]
    ELSE LET pushed == Append(hs, HandlerRecord(production, tmap))
         IN [handlers |-> pushed, ret |-> HandlerName(Len(pushed))]

\* generateRawProductionsData(), from production i on: for each production
\* [LHS, RHS length] and, when buildSemanticAction returned one, its handler.
RECURSIVE generateRawProductionsData(_, _, _, _)
generateRawProductionsData(prods, i, hs, tmap) ==
  IF i > Len(prods) THEN [handlers |-> hs, data |-> <<>>]
  ELSE LET r == buildSemanticAction(prods[i], hs, tmap)
           rest == generateRawProductionsData(prods, i + 1, r.handlers, tmap)
           RHSLength == IF isEpsilon(prods[i]) THEN 0 ELSE Len(prods[i].rhs)
       IN [handlers |-> rest.handlers,
           data |-> <<[lhs |-> prods[i].lhs, len |-> RHSLength, handler |-> r.ret]>>
                      \o rest.data]

\* `&_handler${index + 1}`
HandlerRef(index) == <<"&_handler", ToString(index + 1)>>

\* generateProductionsData(): data[2] of every entry is overwritten.
generateProductionsData(raw) ==
  [i \in DOMAIN raw |-> [raw[i] EXCEPT !.handler = HandlerRef(i - 1)]]

\* _generateHandlers(handlers, name, returnType)
_generateHandlers(handlers, name, returnType) ==
  [i \in DOMAIN handlers |->
     [returnType |-> returnType,
      name       |-> <<name, ToString((i - 1) + 1)>>,
      args       |-> handlers[i].args,
      action     |-> handlers[i].action]]

(***************************************************************************)
(* Token types.                                                            *)
(***************************************************************************)
Dollar == W("$")

\* TokenType without the case of the sentinel.
TokenTypeNoSentinel(token, decl) ==
  IF token.key \in decl THEN [name |-> token.key, code |-> token.code]
  ELSE [name |-> <<"TOKEN_TYPE_", ToString(token.code)>>, code |-> token.code]

\* The enumeration member of one token.
TokenType(token, decl) ==
  IF token.key \in decl THEN [name |-> token.key, code |-> token.code]
  ELSE IF token.key = Dollar THEN [name |-> W("__EOF"), code |-> token.code]
  ELSE [name |-> <<"TOKEN_TYPE_", ToString(token.code)>>, code |-> token.code]

\* Whether the callback reaches `this._terminalsMap[token] = index`.
RecordsTerminal(token, decl) == token.key \notin decl

\* TerminalsAfter with the map emptied before it is filled.
TerminalsAfterCleared(tmap, toks, decl) ==
  LET rec == {i \in DOMAIN toks : RecordsTerminal(toks[i], decl)}
  IN [k \in {toks[i].key : i \in rec} |-> toks[CHOOSE i \in rec : toks[i].key = k].code]

\* this._terminalsMap after generateTokenTypes (the keys of this._tokens are
\* distinct).
TerminalsAfter(tmap, toks, decl) ==
  LET rec == {i \in DOMAIN toks : RecordsTerminal(toks[i], decl)}
      keys == {toks[i].key : i \in rec}
  IN [k \in (DOMAIN tmap) \cup keys |->
        IF k \in keys THEN toks[CHOOSE i \in rec : toks[i].key = k].code
        ELSE tmap[k]]

generateTokenTypes(toks, decl) == [i \in DOMAIN toks |-> TokenType(toks[i], decl)]

(***************************************************************************)
(* Lexical rules.  A rule has its raw matcher, its raw handler and the     *)
(* start conditions it belongs to; a rule object is identified by its      *)
(* position in the lexical grammar's rule list.                            *)
(***************************************************************************)
\* handler.includes('return')
IncludesReturn(handler) == \E k \in DOMAIN handler : "return" \in Range(handler[k])

LexAction(lexRule, tmap) ==
  LET raw == lexRule.handler
      handler == IF IncludesReturn(raw) THEN raw ELSE <<Return>> \o raw
  IN _actionFromHandler(handler, tmap)

LexHandlerRecord(lexRule, tmap) ==
  [args   |-> <<"const Tokenizer& tokenizer, const std::string& yytext">>,
   action |-> LexAction(lexRule, tmap)]

\* LexRuleNumber as a 0-based index.
LexRuleNumberZeroBased(pushed) == Len(pushed) - 1

\* The N of `&_lexRule${this._lexHandlers.length}`, read after the push.
LexRuleNumber(pushed) == Len(pushed)

\* The map callback of generateLexRules over the rules from position i on.
RECURSIVE generateLexRules(_, _, _, _)
generateLexRules(rules, i, hs, tmap) ==
  IF i > Len(rules) THEN [handlers |-> hs, lexRules |-> <<>>]
  ELSE LET pushed == Append(hs, LexHandlerRecord(rules[i], tmap))
           rest == generateLexRules(rules, i + 1, pushed, tmap)
       IN [handlers |-> rest.handlers,
           lexRules |-> <<[matcher |-> rules[i].matcher,
                           lexRule |-> LexRuleNumber(pushed)]>> \o rest.lexRules]

\* lexGrammar.getRuleIndex(lexRule): the 0-based position of the rule object.
getRuleIndex(position) == position - 1

\* The start conditions, in the key order of getRulesByStartConditions().
Conditions == <<"INITIAL", "comment">>

\* lexGrammar.getRulesByStartConditions()[condition]: the rules of the
\* condition, in rule order, as positions.
RECURSIVE RulesOf(_, _, _)
RulesOf(rules, condition, i) ==
  IF i > Len(rules) THEN <<>>
  ELSE (IF condition \in rules[i].conds THEN <<i>> ELSE <<>>)
         \o RulesOf(rules, condition, i + 1)

\* The `result` object of generateLexRulesByStartConditions, by condition.
LexRulesByConditions(rules) ==
  [c \in Range(Conditions) |->
     LET rs == RulesOf(rules, c, 1) IN [k \in DOMAIN rs |-> getRuleIndex(rs[k])]]

\* The `result` object: its keys in insertion order, and its values.
ConditionKey(c) == <<"TokenizerState::", c>>

LexRulesByConditionsMap(rules) ==
  _toCppMap([k \in {ConditionKey(c) : c \in Range(Conditions)} |->
               LexRulesByConditions(rules)[k[2]]],
            [i \in DOMAIN Conditions |-> ConditionKey(Conditions[i])],
            "", "raw", "string")

(***************************************************************************)
(* The state of a newly constructed generator.                             *)
(***************************************************************************)
NoTerminals == [k \in {} |-> 0]

FirstRun ==
  [n |-> 1, reset |-> TRUE, prevP |-> <<>>, prevL |-> <<>>, tmap0 |-> NoTerminals]

FreshTwin ==
  [productionHandlers |-> <<>>, lexHandlers |-> <<>>, terminalsMap |-> NoTerminals,
   lexRefs |-> <<>>]

NoCall == [called |-> FALSE, hasAction |-> FALSE, ret |-> Null, twinRet |-> Null]

FreshInstance ==
  /\ productionHandlers = <<>>
  /\ lexHandlers = <<>>
  /\ terminalsMap = NoTerminals
  /\ actionCalls = <<>>
  /\ lastCall = NoCall
  /\ genBase = -1
  /\ lexRefs = <<>>
  /\ lexBase = 0
  /\ run = FirstRun
  /\ twin = FreshTwin

NoInclude ==
  /\ moduleInclude = <<>>
  /\ includeCall = "none"
  /\ slotsBefore = NoSlots

NoGrammar ==
  /\ productions = <<>>
  /\ tokens = <<>>
  /\ declared = {}
  /\ lexRules = <<>>
  /\ NoInclude

NoTable ==
  /\ table = <<>>
  /\ tableIn = <<>>
  /\ tableRet = <<>>
  /\ tableRet1 = <<>>
  /\ tcalls = 0

otherThanTable ==
  <<grammarVars, structVars, prodHistVars, lexHistVars, includeVars, run, twin>>

(***************************************************************************)
(* Operations on the table.                                                *)
(***************************************************************************)
\* The effect of one _buildTable(table) call on the table and the history.
BuildTableEffect ==
  /\ tcalls < MaxCalls
  /\ tableIn' = table
  /\ table' = TableAfter(table)
  /\ tableRet' = TableEntries(table)
  /\ tableRet1' = IF tcalls = 0 THEN TableEntries(table) ELSE tableRet1
  /\ tcalls' = tcalls + 1

\* _buildTable(table), called on its own.
BuildTable ==
  /\ BuildTableEffect
  /\ slots' = writeData(slots, "ROWS_COUNT", Len(TableEntries(table)))
  /\ UNCHANGED otherThanTable

\* generateParseTable().
GenerateParseTable ==
  /\ BuildTableEffect
  /\ slots' = writeData(writeData(slots, "ROWS_COUNT", Len(TableEntries(table))),
                        "TABLE", TableEntries(table))
  /\ UNCHANGED otherThanTable

InitTable ==
  /\ slots = NoSlots
  /\ table \in Tables
  /\ tableIn = table
  /\ tableRet = <<>>
  /\ tableRet1 = <<>>
  /\ tcalls = 0
  /\ NoGrammar
  /\ FreshInstance

NextTable == BuildTable \/ GenerateParseTable

SpecTable == InitTable /\ [][NextTable]_vars

(***************************************************************************)
(* The grammars of the model.                                              *)
(***************************************************************************)
\* `$$ = _1 + _2`, `__ = 0;`, `$$ = _2`
ActionSum   == <<W("$$"), W("="), ParamName(1), W("+"), ParamName(2)>>
ActionConst == <<W("__"), W("="), W("0"), Semi>>
ActionSnd   == <<W("$$"), W("="), ParamName(2)>>

Actions == {Null, ActionSum, ActionConst, ActionSnd}

RHSs == {Epsilon} \cup UNION {[1..k -> {"T", "N"}] : k \in 1..MaxRHS}

AllProductions ==
  [lhs : {0}, rhs : RHSs, propagates : BOOLEAN, action : Actions]

\* A -> 'a' { __ = _1 } (propagating), E -> E 'a' (no action), A -> epsilon
ProdToken   == [lhs |-> 1, rhs |-> <<"T">>, propagates |-> TRUE,
                action |-> <<W("__"), W("="), ParamName(1)>>]
ProdPlain   == [lhs |-> 0, rhs |-> <<"N", "T">>, propagates |-> FALSE, action |-> Null]
ProdEpsilon == [lhs |-> 1, rhs |-> Epsilon, propagates |-> FALSE, action |-> ActionConst]

ProdSamples == {ProdToken, ProdPlain, ProdEpsilon}

LitA   == <<"'", "a", "'">>
NumberKey == W("NUMBER")
\* a token that the grammar declares under the name TOKEN_TYPE_1
GeneratedLookalike == <<"TOKEN_TYPE_", "1">>
NamedKeys == {NumberKey, GeneratedLookalike}

\* The token maps: the keys in any order, the codes 0..N-1 in key order,
\* the sentinel `$` always among them.
TokenLists ==
  {t \in UNION {[1..k -> [key : {Dollar, LitA} \cup NamedKeys, code : 0..2]] : k \in 1..3} :
     /\ \A i \in DOMAIN t : t[i].code = i - 1
     /\ \A i, j \in DOMAIN t : i # j => t[i].key # t[j].key
     /\ \E i \in DOMAIN t : t[i].key = Dollar}

\* `return "'a'";`, `'NUMBER'`, `return '$'`
RuleA      == [matcher |-> "a", conds |-> {"INITIAL"},
               handler |-> <<Return, <<"\"", "'", "a", "'", "\"">>, Semi>>]
RuleNumber == [matcher |-> "\\d+", conds |-> {"INITIAL", "comment"},
               handler |-> << <<"'", "NUMBER", "'">> >>]
RuleEnd    == [matcher |-> "$", conds |-> {"comment"},
               handler |-> <<Return, <<"'", "$", "'">>>>]

LexRuleSamples == {RuleA, RuleNumber, RuleEnd}

(***************************************************************************)
(* Operations of the generator.                                            *)
(***************************************************************************)
HasAction(call) == getSemanticActionCode(call.prod) # Null

\* buildSemanticAction(productions[i]), called on its own.
BuildSemanticActionCall ==
  \E i \in DOMAIN productions :
    LET p  == productions[i]
        r  == buildSemanticAction(p, productionHandlers, terminalsMap)
        tr == buildSemanticAction(p, twin.productionHandlers, twin.terminalsMap)
        c  == [prod |-> p, idx |-> 0]
    IN /\ Len(productionHandlers) < MaxHandlers
       /\ productionHandlers' = r.handlers
       /\ actionCalls' = IF HasAction(c) THEN Append(actionCalls, c) ELSE actionCalls
       /\ lastCall' = [called |-> TRUE, hasAction |-> HasAction(c),
                       ret |-> r.ret, twinRet |-> tr.ret]
       /\ twin' = [twin EXCEPT !.productionHandlers = tr.handlers]
       /\ UNCHANGED <<slots, tableVars, grammarVars, lexHandlers, terminalsMap,
                      genBase, lexHistVars, includeVars, run>>

\* generateProductions().
GenerateProductions ==
  LET raw  == generateRawProductionsData(productions, 1, productionHandlers, terminalsMap)
      traw == generateRawProductionsData(productions, 1, twin.productionHandlers,
                                         twin.terminalsMap)
      cs   == [i \in DOMAIN productions |-> [prod |-> productions[i], idx |-> i]]
      n    == Len(productions)
  IN /\ n > 0
     /\ Len(productionHandlers) + n <= MaxHandlers
     /\ productionHandlers' = raw.handlers
     /\ slots' = writeData(writeData(slots, "PRODUCTIONS_COUNT", n),
                           "PRODUCTIONS", generateProductionsData(raw.data))
     /\ actionCalls' = actionCalls \o SelectSeq(cs, HasAction)
     /\ lastCall' = [called |-> TRUE, hasAction |-> HasAction(cs[n]),
                     ret |-> raw.data[n].handler, twinRet |-> traw.data[n].handler]
     /\ genBase' = Len(productionHandlers)
     /\ twin' = [twin EXCEPT !.productionHandlers = traw.handlers]
     /\ UNCHANGED <<tableVars, grammarVars, lexHandlers, terminalsMap, lexHistVars,
                   includeVars, run>>

\* generateProductionHandlers().
GenerateProductionHandlers ==
  /\ slots' = writeData(slots, "PRODUCTION_HANDLERS",
                        _generateHandlers(productionHandlers, "_handler", "void"))
  /\ UNCHANGED <<tableVars, grammarVars, structVars, prodHistVars, lexHistVars,
                 includeVars, run, twin>>

\* generateTokenTypes().
GenerateTokenTypes ==
  /\ terminalsMap' = TerminalsAfter(terminalsMap, tokens, declared)
  /\ slots' = writeData(slots, "TOKEN_TYPES", generateTokenTypes(tokens, declared))
  /\ twin' = [twin EXCEPT !.terminalsMap = TerminalsAfter(@, tokens, declared)]
  /\ UNCHANGED <<tableVars, grammarVars, productionHandlers, lexHandlers,
                 prodHistVars, lexHistVars, includeVars, run>>

\* generateLexRules().
GenerateLexRules ==
  LET r  == generateLexRules(lexRules, 1, lexHandlers, terminalsMap)
      tr == generateLexRules(lexRules, 1, twin.lexHandlers, twin.terminalsMap)
  IN /\ Len(lexHandlers) + Len(lexRules) <= MaxLexHandlers
     /\ lexHandlers' = r.handlers
     /\ slots' = writeData(writeData(slots, "LEX_RULES_COUNT", Len(r.lexRules)),
                           "LEX_RULES", r.lexRules)
     /\ lexRefs' = [i \in DOMAIN r.lexRules |-> r.lexRules[i].lexRule]
     /\ lexBase' = Len(lexHandlers)
     /\ twin' = [twin EXCEPT !.lexHandlers = tr.handlers,
                             !.lexRefs = [i \in DOMAIN tr.lexRules |->
                                            tr.lexRules[i].lexRule]]
     /\ UNCHANGED <<tableVars, grammarVars, productionHandlers, terminalsMap,
                    prodHistVars, includeVars, run>>

\* generateLexRulesByStartConditions().
GenerateLexRulesByStartConditions ==
  /\ slots' = writeData(writeData(slots, "TOKENIZER_STATES", Conditions),
                        "LEX_RULES_BY_START_CONDITIONS",
                        LexRulesByConditionsMap(lexRules))
  /\ UNCHANGED <<tableVars, grammarVars, structVars, prodHistVars, lexHistVars,
                 includeVars, run, twin>>

\* generateLexHandlers().
GenerateLexHandlers ==
  /\ slots' = writeData(slots, "LEX_RULE_HANDLERS",
                        _generateHandlers(lexHandlers, "_lexRule", "inline TokenType"))
  /\ UNCHANGED <<tableVars, grammarVars, structVars, prodHistVars, lexHistVars,
                 includeVars, run, twin>>

(***************************************************************************)
(* Specifications of the generator.                                        *)
(***************************************************************************)
\* One production of any shape, translated on a new generator.
InitAction ==
  /\ slots = NoSlots
  /\ NoTable
  /\ productions \in {<<p>> : p \in AllProductions}
  /\ tokens = <<>>
  /\ declared = {}
  /\ lexRules = <<>>
  /\ NoInclude
  /\ FreshInstance

NextAction == BuildSemanticActionCall \/ GenerateProductionHandlers

SpecAction == InitAction /\ [][NextAction]_vars

\* The productions of a grammar, with and without actions.
InitProd ==
  /\ slots = NoSlots
  /\ NoTable
  /\ productions \in SeqsUpTo(ProdSamples, MaxProds) \ {<<>>}
  /\ tokens = <<>>
  /\ declared = {}
  /\ lexRules = <<>>
  /\ NoInclude
  /\ FreshInstance

NextProd == BuildSemanticActionCall \/ GenerateProductions \/ GenerateProductionHandlers

SpecProd == InitProd /\ [][NextProd]_vars

\* The tokens and the lexical rules of a grammar.
InitLex ==
  /\ slots = NoSlots
  /\ NoTable
  /\ productions = <<>>
  /\ tokens \in TokenLists
  /\ declared \in SUBSET ({tokens[i].key : i \in DOMAIN tokens} \cap NamedKeys)
  /\ lexRules \in SeqsUpTo(LexRuleSamples, MaxLexRules)
  /\ NoInclude
  /\ FreshInstance

NextLex ==
  \/ GenerateTokenTypes
  \/ GenerateLexRules
  \/ GenerateLexRulesByStartConditions
  \/ GenerateLexHandlers

SpecLex == InitLex /\ [][NextLex]_vars

(***************************************************************************)
(* generateModuleInclude.  The module-include text is a sequence of atoms: *)
(* words (runs of \w characters), white space (" " is one space), and      *)
(* other characters.  Two adjacent word atoms read as one word.            *)
(***************************************************************************)
WordAtoms ==
  {"using", "class", "struct", "typedef", "Value", "ValueType", "int", "my",
   "void", "onParseBegin", "onParseEnd", "std", "string"}

SpaceAtoms == {" ", "\n"}

IsWord(a) == a \in WordAtoms

IsSpace(a) == a \in SpaceAtoms

\* \b before position i, which holds a word atom
BoundaryBefore(text, i) == i = 1 \/ ~IsWord(text[i - 1])

\* \b after position i, which holds a word atom
BoundaryAfter(text, i) == i = Len(text) \/ ~IsWord(text[i + 1])

\* \s+ matches exactly the atoms a..b
SpaceRun(text, a, b) == a <= b /\ \A k \in a..b : IsSpace(text[k])

\* \w+ matches exactly the atoms a..b
WordRun(text, a, b) == a <= b /\ \A k \in a..b : IsWord(text[k])

\* An atom that starts with the characters `Value`
StartsWithValue(a) == a \in {"Value", "ValueType"}

\* /\b(?:using|class|struct)\s+Value\b|\btypedef\s+\w+\s+Value/.test(text)
hasValueType(text) ==
  \/ \E i, j \in DOMAIN text :
       /\ text[i] \in {"using", "class", "struct"}
       /\ BoundaryBefore(text, i)
       /\ SpaceRun(text, i + 1, j - 1)
       /\ text[j] = "Value"
       /\ BoundaryAfter(text, j)
  \/ \E i, a, b, j \in DOMAIN text :
       /\ text[i] = "typedef"
       /\ BoundaryBefore(text, i)
       /\ SpaceRun(text, i + 1, a - 1)
       /\ WordRun(text, a, b)
       /\ SpaceRun(text, b + 1, j - 1)
       /\ StartsWithValue(text[j])

\* moduleInclude.includes('void ' + hook)
IncludesHook(text, hook) ==
  \E i \in DOMAIN text :
    /\ i + 2 <= Len(text)
    /\ text[i] = "void"
    /\ text[i + 1] = " "
    /\ text[i + 2] = hook

\* What generateModuleInclude does to the registry; "threw" when it throws.
generateModuleInclude(reg, text) ==
  IF ~hasValueType(text) THEN [result |-> "threw", slots |-> reg]
  ELSE LET onParseBegin == IF IncludesHook(text, "onParseBegin")
                             THEN "onParseBegin(str);" ELSE ""
           onParseEnd   == IF IncludesHook(text, "onParseEnd")
                             THEN "onParseEnd(result);" ELSE ""
       IN [result |-> "returned",
           slots  |-> writeData(writeData(writeData(reg,
                        "ON_PARSE_BEGIN_CALL", onParseBegin),
                        "ON_PARSE_END_CALL", onParseEnd),
                        "MODULE_INCLUDE", text)]

\* The pieces the module includes of the model are put together from.
Fragments ==
  { <<"using", " ", "Value">>,
    <<"class", "\n", " ", "Value">>,
    <<"struct", " ", "ValueType">>,
    <<"typedef", " ", "int", " ", "Value">>,
    <<"typedef", " ", "std", "::", "string", " ", "Value">>,
    <<"typedef", " ", "int", " ", "ValueType">>,
    <<"void", " ", "onParseBegin">>,
    <<"void", "\n", "onParseBegin">>,
    <<"void", " ", "onParseEnd">>,
    <<"my">>,
    <<";">> }

RECURSIVE Flatten(_)
Flatten(parts) == IF parts = <<>> THEN <<>> ELSE Head(parts) \o Flatten(Tail(parts))

ModuleIncludes == {Flatten(parts) : parts \in SeqsUpTo(Fragments, MaxFragments)}

ClassNames == {"yyparse", "Calc"}

otherThanInclude ==
  <<tableVars, productions, tokens, declared, lexRules, structVars, prodHistVars,
    lexHistVars, run, twin>>

\* generateModuleInclude().
GenerateModuleInclude ==
  LET r == generateModuleInclude(slots, moduleInclude)
  IN /\ includeCall = "none"
     /\ slots' = r.slots
     /\ includeCall' = r.result
     /\ slotsBefore' = slots
     /\ UNCHANGED <<moduleInclude, otherThanInclude>>

\* generateParserClassName(className): the slot is written three times.
GenerateParserClassName ==
  \E className \in ClassNames :
    /\ includeCall = "none"
    /\ slots' = writeData(writeData(writeData(slots,
                  "PARSER_CLASS_NAME", className),
                  "PARSER_CLASS_NAME", className),
                  "PARSER_CLASS_NAME", className)
    /\ UNCHANGED <<includeVars, otherThanInclude>>

\* The module includes of a second grammar: none, `myusing Value`,
\* `using Value`.
LaterIncludes == {<<>>, <<"my", "using", " ", "Value">>, <<"using", " ", "Value">>}

\* The host hands the generator a grammar with another module include.
NewModuleInclude ==
  \E text \in LaterIncludes :
    /\ includeCall = "returned"
    /\ text # moduleInclude
    /\ moduleInclude' = text
    /\ includeCall' = "none"
    /\ UNCHANGED <<slots, slotsBefore, otherThanInclude>>

InitInclude ==
  /\ slots = NoSlots
  /\ NoTable
  /\ productions = <<>>
  /\ tokens = <<>>
  /\ declared = {}
  /\ lexRules = <<>>
  /\ moduleInclude \in ModuleIncludes
  /\ includeCall = "none"
  /\ slotsBefore = NoSlots
  /\ FreshInstance

NextInclude == GenerateModuleInclude \/ GenerateParserClassName \/ NewModuleInclude

SpecInclude == InitInclude /\ [][NextInclude]_vars

(***************************************************************************)
(* One generator instance used for several grammars in turn.               *)
(***************************************************************************)
\* S -> 'a' with terminals $ and 'a'; a grammar with the declared token
\* NUMBER whose lexical rules still return the literal 'a'.
GrammarA ==
  [productions |-> <<ProdToken>>,
   tokens      |-> <<[key |-> Dollar, code |-> 0], [key |-> LitA, code |-> 1]>>,
   declared    |-> {},
   lexRules    |-> <<RuleA>>]

GrammarB ==
  [productions |-> <<ProdPlain, ProdEpsilon>>,
   tokens      |-> <<[key |-> NumberKey, code |-> 0], [key |-> Dollar, code |-> 1]>>,
   declared    |-> {NumberKey},
   lexRules    |-> <<RuleNumber, RuleA>>]

Grammars == {GrammarA, GrammarB}

\* The host starts the generation for grammar g on the same instance, and
\* empties the three structures first or does not.
NewRun ==
  \E g \in Grammars, reset \in BOOLEAN :
    /\ run.n < MaxRuns
    /\ productions' = g.productions
    /\ tokens' = g.tokens
    /\ declared' = g.declared
    /\ lexRules' = g.lexRules
    /\ productionHandlers' = IF reset THEN <<>> ELSE productionHandlers
    /\ lexHandlers' = IF reset THEN <<>> ELSE lexHandlers
    /\ terminalsMap' = IF reset THEN NoTerminals ELSE terminalsMap
    /\ run' = [n |-> run.n + 1, reset |-> reset, prevP |-> productionHandlers',
               prevL |-> lexHandlers', tmap0 |-> terminalsMap']
    /\ twin' = FreshTwin
    /\ lastCall' = NoCall
    /\ lexRefs' = <<>>
    /\ lexBase' = 0
    /\ genBase' = -1
    /\ UNCHANGED <<slots, tableVars, actionCalls, includeVars>>

Init ==
  /\ slots = NoSlots
  /\ NoTable
  /\ \E g \in Grammars :
       /\ productions = g.productions
       /\ tokens = g.tokens
       /\ declared = g.declared
       /\ lexRules = g.lexRules
  /\ NoInclude
  /\ FreshInstance

Next ==
  \/ NewRun
  \/ BuildSemanticActionCall
  \/ GenerateTokenTypes
  \/ GenerateLexRules

Spec == Init /\ [][Next]_vars

(***************************************************************************)
(* Claims about the table encoder.                                         *)
(***************************************************************************)
IsDigits(s) ==
  /\ Len(s) > 0
  /\ \A i \in DOMAIN s : s[i] \in {"0","1","2","3","4","5","6","7","8","9"}

\* The cell the claim expects for directive d.
ClaimedCell(d) ==
  IF d = Acc THEN AcceptText
  ELSE IF Len(d) > 1 /\ d[1] = "s" /\ IsDigits(Tail(d))
    THEN <<"{","T","E",":",":","S","h","i","f","t",","," ">> \o Tail(d) \o <<"}">>
  ELSE IF Len(d) > 1 /\ d[1] = "r" /\ IsDigits(Tail(d))
    THEN <<"{","T","E",":",":","R","e","d","u","c","e",","," ">> \o Tail(d) \o <<"}">>
  ELSE <<"{","T","E",":",":","T","r","a","n","s","i","t",","," ">> \o d \o <<"}">>

\* C3: after a _buildTable call on table T, the returned text has one row
\* per state of T in state order, each row holds exactly one cell per
\* column key of the state's row, under the number of that key, and the cell
\* is {TE::Shift, N} for s<N>, {TE::Reduce, N} for r<N>, {TE::Accept, 0} for
\* acc and {TE::Transit, d} for any other d; ROWS_COUNT is the number of rows.
C3_EncodingPreserved ==
  tcalls > 0 =>
    /\ Len(tableRet) = Len(tableIn)
    /\ "ROWS_COUNT" \in DOMAIN slots /\ slots["ROWS_COUNT"] = Len(tableIn)
    /\ \A i \in DOMAIN tableIn :
         /\ tableRet[i].type = "Row"
         /\ Len(tableRet[i].items) = Cardinality(DOMAIN tableIn[i])
         /\ \A k \in DOMAIN tableIn[i] :
              /\ Cardinality({j \in DOMAIN tableRet[i].items :
                                tableRet[i].items[j][1] = Number(k)}) = 1
              /\ \E j \in DOMAIN tableRet[i].items :
                   tableRet[i].items[j] = <<Number(k), ClaimedCell(tableIn[i][k])>>

\* The first call on a table of two full rows that holds all four kinds of
\* raw directive.
C3_Witness ==
  /\ tcalls = 1
  /\ Len(tableIn) = 2
  /\ \A d \in Directives : \E i \in DOMAIN tableIn : \E k \in DOMAIN tableIn[i] :
       tableIn[i][k] = d
  /\ "TABLE" \in DOMAIN slots

\* C10: _buildTable leaves the table it is given as it was, and a second
\* call on the same table object returns the text of the first call.
C10_TableOnlyRead ==
  /\ tcalls >= 1 => table = tableIn
  /\ tcalls >= 2 => tableRet = tableRet1

(***************************************************************************)
(* Claims about the production handlers.                                   *)
(***************************************************************************)
\* The handler record that position n of _productionHandlers was registered
\* for in generateProductionsData, as the position of its production (0 when
\* there is no such record).
OwnerOf(n) == IF n \in DOMAIN actionCalls THEN actionCalls[n].idx ELSE 0

\* C1: after generateProductionsData on a generator with no handlers yet,
\* there are as many handler records as productions, and the reference
\* &_handler<i+1> emitted for the production at position i names the record
\* that buildSemanticAction registered for that production.
C1_HandlerPerProduction ==
  (genBase = 0 /\ \A k \in DOMAIN actionCalls : actionCalls[k].idx # 0) =>
    /\ Len(productionHandlers) = Len(productions)
    /\ \A i \in DOMAIN productions :
         \E n \in DOMAIN productionHandlers :
           /\ slots["PRODUCTIONS"][i].handler = <<"&_handler", ToString(n)>>
           /\ OwnerOf(n) = i

IsPopT(l) ==
  \/ l = <<"parser.tokensStack.pop_back();">>
  \/ Len(l) > 2 /\ l[1] = "auto " /\ l[Len(l)] = " = POP_T();"

IsPopV(l) ==
  \/ l = <<"parser.valuesStack.pop_back();">>
  \/ Len(l) > 2 /\ l[1] = "auto " /\ l[Len(l)] = " = POP_V();"

IsPop(l) == IsPopT(l) \/ IsPopV(l)

IsPush(l) == l \in {<<"PUSH_TR", "();">>, <<"PUSH_VR", "();">>}

\* C2: the body built for a production with K right-hand symbols (0 for
\* epsilon) holds exactly K pop statements; the m-th of them pops position
\* K+1-m (a bound variable is named _<K+1-m>), from the token stack iff that
\* symbol is a token or the production propagates a token; the body ends
\* with its only push, PUSH_TR iff the production propagates a token.
C2_PopsAndPush ==
  \A n \in DOMAIN productionHandlers :
    LET p    == actionCalls[n].prod
        body == productionHandlers[n].action
        pops == SelectSeq(body, IsPop)
        K    == IF p.rhs = <<"eps">> THEN 0 ELSE Len(p.rhs)
    IN /\ Len(pops) = K
       /\ \A m \in 1..K :
            LET pos == K + 1 - m
            IN /\ IsPopT(pops[m]) <=> (p.rhs[pos] = "T" \/ p.propagates)
               /\ Len(pops[m]) > 1 =>
                    SubSeq(pops[m], 2, Len(pops[m]) - 1) = <<"_", ToString(pos)>>
       /\ SelectSeq(body, IsPush) =
            << <<(IF p.propagates THEN "PUSH_TR" ELSE "PUSH_VR"), "();">> >>
       /\ IsPush(body[Len(body)])

\* A body for `E -> N T { $$ = _1 + _2 }`, not propagating: two bound pops.
C2_Witness ==
  \E n \in DOMAIN productionHandlers :
    /\ actionCalls[n].prod.rhs = <<"N", "T">>
    /\ actionCalls[n].prod.action = ActionSum
    /\ ~actionCalls[n].prod.propagates

\* C8 (state part): in a pass that starts with no handlers, the list holds
\* one record per call on a production with an action; the Nth such call
\* returned "_handler<N>", a call on a production without action null.
C8_Numbering ==
  /\ Len(productionHandlers) = Len(actionCalls)
  /\ lastCall.called =>
       IF lastCall.hasAction
         THEN lastCall.ret = <<"\"", "_handler", ToString(Len(actionCalls)), "\"">>
         ELSE lastCall.ret = <<>>

\* C8 (step part): no step removes, reorders or alters a record of the list.
C8_AppendOnly ==
  /\ Len(productionHandlers') >= Len(productionHandlers)
  /\ SubSeq(productionHandlers', 1, Len(productionHandlers)) = productionHandlers

\* C8: handler indices are 1-based, contiguous and assigned in call order,
\* calls without an action add nothing and return null, and a record once
\* in the list stays what and where it is.
C8_HandlerIndices == [](C8_Numbering) /\ [][C8_AppendOnly]_vars

\* The second record was just registered, in a grammar that also has a
\* production without an action.
C8_Witness ==
  /\ lastCall.hasAction
  /\ lastCall.ret = <<"\"", "_handler", "2", "\"">>
  /\ Len(productionHandlers) = 2
  /\ \E i \in DOMAIN productions : productions[i].action = <<>>

(***************************************************************************)
(* Claims about the tokens and the lexical rules.                          *)
(***************************************************************************)
\* What the claim says of the emitted enumeration.
OneUniqueMemberPerCode ==
  LET tt == slots["TOKEN_TYPES"]
      N  == Len(tokens)
  IN /\ Len(tt) = N
     /\ \A c \in 0..(N - 1) : Cardinality({i \in DOMAIN tt : tt[i].code = c}) = 1
     /\ \A i, j \in DOMAIN tt : i # j => tt[i].name # tt[j].name
     /\ \A i \in DOMAIN tokens :
          tokens[i].key = <<"$">> => tt[i] = [name |-> <<"__EOF">>, code |-> i - 1]

GeneratedForm(name) ==
  name = <<"__EOF">> \/ (Len(name) = 2 /\ name[1] = "TOKEN_TYPE_")

IsPlaceholder(i) ==
  /\ tokens[i].key \notin declared
  /\ slots["TOKEN_TYPES"][i].name = <<"TOKEN_TYPE_", ToString(tokens[i].code)>>

\* C7: after generateTokenTypes on an empty reverse map, the map holds
\* literal -> code exactly for the terminals emitted as TOKEN_TYPE_<code>,
\* and every TokenType::TOKEN_TYPE_<n> in a lexical handler names a member
\* of the emitted enumeration.
C7_ReverseMapOnlyPlaceholders ==
  "TOKEN_TYPES" \in DOMAIN slots =>
    LET tt == slots["TOKEN_TYPES"]
    IN /\ DOMAIN terminalsMap =
            {tokens[i].key : i \in {j \in DOMAIN tt : IsPlaceholder(j)}}
       /\ \A i \in DOMAIN tt :
            IsPlaceholder(i) => terminalsMap[tokens[i].key] = tt[i].code
       /\ \A h \in DOMAIN lexHandlers : \A k \in DOMAIN lexHandlers[h].action :
            LET l == lexHandlers[h].action[k]
            IN (Len(l) = 3 /\ l[1] = "TokenType::" /\ l[2] = "TOKEN_TYPE_") =>
                 \E i \in DOMAIN tt : tt[i].name = <<l[2], l[3]>>

\* C6 as stated: the place of rule r's handler in the flat handler list
\* (N - 1 for &_lexRule<N>) is always the index getRuleIndex(r) that the
\* by-condition table lists for r.
C6_AlwaysAgree ==
  \A pos \in DOMAIN lexRefs : lexRefs[pos] - 1 = getRuleIndex(pos)

\* C6 amended: N is the length of _lexHandlers at the start of the
\* generateLexRules call plus getRuleIndex(r) + 1, the record at N is the
\* one built for r, and the by-condition table lists getRuleIndex(r) for
\* exactly the rules of the condition, in rule order; so the two agree when
\* the call starts with an empty _lexHandlers.
C6_AgreeUpToBase ==
  /\ \A pos \in DOMAIN lexRefs :
       /\ lexRefs[pos] = lexBase + getRuleIndex(pos) + 1
       /\ lexRefs[pos] \in DOMAIN lexHandlers
       /\ lexBase = 0 => lexRefs[pos] - 1 = getRuleIndex(pos)
  /\ "LEX_RULES" \in DOMAIN slots =>
       /\ slots["LEX_RULES_COUNT"] = Len(lexRules)
       /\ \A pos \in DOMAIN lexRules :
            slots["LEX_RULES"][pos] =
              [matcher |-> lexRules[pos].matcher, lexRule |-> lexRefs[pos]]
  /\ "LEX_RULES_BY_START_CONDITIONS" \in DOMAIN slots =>
       \A c \in DOMAIN Conditions :
         LET listed == slots["LEX_RULES_BY_START_CONDITIONS"].items[c][2]
         IN /\ {listed[k] : k \in DOMAIN listed} =
                 {pos - 1 : pos \in {q \in DOMAIN lexRules :
                                       Conditions[c] \in lexRules[q].conds}}
            /\ \A k \in DOMAIN listed : k > 1 => listed[k - 1] < listed[k]

\* A second generateLexRules call on two rules, the by-condition table
\* written.
C6_Witness ==
  /\ lexBase = 2
  /\ Len(lexRefs) = 2
  /\ "LEX_RULES_BY_START_CONDITIONS" \in DOMAIN slots

(***************************************************************************)
(* Claim about the reuse of one generator for several grammars.            *)
(***************************************************************************)
\* C9: in a run that the host starts without emptying the three structures
\* the records and map entries of the earlier runs stay, the handler names
\* and &_lexRule numbers of the run continue after the earlier records, and
\* literals of the earlier grammars stay in the reverse map; in a run started
\* after the host emptied all three, the names, numbers, records and map are
\* those of a new generator that is given the same calls.
C9_ReuseLeaksResetIsolates ==
  /\ Len(run.prevP) <= Len(productionHandlers)
  /\ SubSeq(productionHandlers, 1, Len(run.prevP)) = run.prevP
  /\ Len(run.prevL) <= Len(lexHandlers)
  /\ SubSeq(lexHandlers, 1, Len(run.prevL)) = run.prevL
  /\ \A k \in DOMAIN run.tmap0 : k \in DOMAIN terminalsMap
  /\ Len(productionHandlers) = Len(run.prevP) + Len(twin.productionHandlers)
  /\ Len(lexHandlers) = Len(run.prevL) + Len(twin.lexHandlers)
  /\ (lastCall.called /\ lastCall.hasAction) =>
       \E k \in 1..Len(twin.productionHandlers) :
         /\ lastCall.twinRet = <<"\"", "_handler", ToString(k), "\"">>
         /\ lastCall.ret = <<"\"", "_handler", ToString(Len(run.prevP) + k), "\"">>
  /\ DOMAIN lexRefs = DOMAIN twin.lexRefs
  /\ \A i \in DOMAIN lexRefs : lexRefs[i] = Len(run.prevL) + twin.lexRefs[i]
  /\ run.reset =>
       /\ run.prevP = <<>> /\ run.prevL = <<>>
       /\ productionHandlers = twin.productionHandlers
       /\ lexHandlers = twin.lexHandlers
       /\ terminalsMap = twin.terminalsMap
       /\ lastCall.ret = lastCall.twinRet
       /\ lexRefs = twin.lexRefs
       /\ _generateHandlers(lexHandlers, "_lexRule", "inline TokenType") =
            _generateHandlers(twin.lexHandlers, "_lexRule", "inline TokenType")

\* A second run without reset: its handler name and its lexical rule numbers
\* continue after the first run's records, and the first grammar's literal
\* 'a', no terminal of the second grammar, is rewritten through the map.
C9_Witness ==
  /\ run.n = 2 /\ ~run.reset
  /\ Len(run.prevP) >= 1 /\ Len(run.prevL) >= 1
  /\ lastCall.hasAction /\ lastCall.ret # lastCall.twinRet
  /\ lexRefs # <<>> /\ lexRefs # twin.lexRefs
  /\ <<"'", "a", "'">> \in DOMAIN terminalsMap
  /\ \A i \in DOMAIN tokens : tokens[i].key # <<"'", "a", "'">>
  /\ lexHandlers # run.prevL \o twin.lexHandlers

(***************************************************************************)
(* Claim about the module include.                                         *)
(***************************************************************************)
\* The text declares the type Value: one of the words using, class, struct,
\* white space, the word Value; or the word typedef, the aliased type, white
\* space, the word Value.
DeclaresValue(text) ==
  \E i \in DOMAIN text :
    /\ i = 1 \/ text[i - 1] \notin WordAtoms
    /\ \E j \in (i + 2)..Len(text) :
         /\ text[j] = "Value"
         /\ text[j - 1] \in SpaceAtoms
         /\ j = Len(text) \/ text[j + 1] \notin WordAtoms
         /\ \/ /\ text[i] \in {"using", "class", "struct"}
               /\ \A k \in (i + 1)..(j - 1) : text[k] \in SpaceAtoms
            \/ /\ text[i] = "typedef"
               /\ text[i + 1] \in SpaceAtoms
               /\ j >= i + 4

HookCall(text, hook, call) ==
  IF \E i \in 1..(Len(text) - 2) : SubSeq(text, i, i + 2) = <<"void", " ", hook>>
    THEN call ELSE ""

\* What a generateModuleInclude call has done when `declared` says whether
\* the text counts as declaring Value: without a declaration it threw and
\* left the registry as it was; with one it returned, wrote the three slots
\* (a hook slot is the call iff the hook's signature is in the text, else
\* empty) and left the other slots as they were.
AllOrNothing(isDeclared) ==
  includeCall # "none" =>
    IF ~isDeclared
      THEN includeCall = "threw" /\ slots = slotsBefore
      ELSE /\ includeCall = "returned"
           /\ DOMAIN slots = DOMAIN slotsBefore \cup
                {"ON_PARSE_BEGIN_CALL", "ON_PARSE_END_CALL", "MODULE_INCLUDE"}
           /\ slots["MODULE_INCLUDE"] = moduleInclude
           /\ slots["ON_PARSE_BEGIN_CALL"] =
                HookCall(moduleInclude, "onParseBegin", "onParseBegin(str);")
           /\ slots["ON_PARSE_END_CALL"] =
                HookCall(moduleInclude, "onParseEnd", "onParseEnd(result);")
           /\ \A k \in DOMAIN slotsBefore :
                k \notin {"ON_PARSE_BEGIN_CALL", "ON_PARSE_END_CALL", "MODULE_INCLUDE"}
                  => slots[k] = slotsBefore[k]

\* C4: when the module include declares no type Value, generateModuleInclude
\* throws and leaves the registry as it was; when it declares Value, the
\* call returns and writes the three slots, each hook slot being the call
\* iff the hook's signature is in the text.
C4_IncludeAllOrNothing == AllOrNothing(DeclaresValue(moduleInclude))

\* The same with "the regular expression of line 218 matches" in the place
\* of "declares Value": this is what the code does.
IncludeAllOrNothingOnMatch == AllOrNothing(hasValueType(moduleInclude))

====
